---- MODULE Spec2Model ----
(***************************************************************************)
(* Server-state reconciliation, power control and telemetry of the Nexora  *)
(* client area: MemStorage (server/storage.ts) and the Pterodactyl routes  *)
(* (server/pterodactyl.ts).                                                *)
(***************************************************************************)
EXTENDS Integers, Sequences, FiniteSets, TLC

(* ------------------------------ bounds --------------------------------- *)
\* at most this many ServerRecords are ever created
MaxServers == 2
\* longest batch the orchestrator reports in one pass
MaxBatch == 2
\* samples recorded in the telemetry specification
MaxStatId == 103
\* samples recorded for every server other than the first one
MaxOtherSamples == 1
\* samples recorded by telemetry fetches
MaxPollSamples == 4
\* telemetry fetches that record samples among all registry operations
MaxRegistrySamples == 1
\* records two overlapping passes may create
MaxOverlapServers == 4

(* ------------------------- program constants --------------------------- *)
\* "Keep only the latest 100 stats"
StatsCapacity == 100
\* serverLimit of the basic plan
PlanServerLimit == 2

(* ------------------------------ inputs --------------------------------- *)
\* session users; user 9 has not set a Pterodactyl API key
Users == {7, 8, 9}
ExtIds == {"a1", "b2"}
\* ptero.attributes.status is undefined/null in the payload
NoStatus == "<undefined>"
ReportedStatus == {"running", "SUSPENDED", NoStatus}
\* a null description
Null == "<null>"
ReportedName == {"n1"}
ReportedDescription == {"d1"}
PowerActions == {"start", "stop", "restart", "kill"}
RequestedActions == PowerActions \cup {"reboot"}
None == [none |-> TRUE]

\* the marker of a server the orchestrator stopped reporting (the power
\* state "removed") is the string "deleted" in the code
Removed == "deleted"

\* req.user.pterodactylApiKey of every session user
pterodactylApiKey == [u \in Users |-> IF u = 9 THEN "" ELSE "ptlc_key"]

\* String.prototype.toLowerCase on the reported strings
toLowerCase(s) == IF s = "SUSPENDED" THEN "suspended" ELSE s

\* a || b : the empty string, null and undefined are falsy
OrElse(a, b) == IF a = "" \/ a = Null \/ a = NoStatus THEN b ELSE a

\* PterodactylServer.attributes, the fields the reconciliation reads
RemoteServer ==
  [identifier : ExtIds, status : ReportedStatus, name : ReportedName,
   description : ReportedDescription]
Batches == UNION {[1..n -> RemoteServer] : n \in 0..MaxBatch}
\* what the fetch of the server list gives: a transport error, or a batch
FetchError == [ok |-> FALSE, data |-> <<>>]
FetchReplies == {FetchError} \cup {[ok |-> TRUE, data |-> batch] : batch \in Batches}

VARIABLES
  serversData,      \* Map<number, Server>, in insertion order
  serverStatsData,  \* Map<number, ServerStat[]>, as a function of the key
  currentId,        \* the id counters
  powerReq,         \* the power request suspended on its orchestrator call
  res,              \* the last HTTP response sent
  recorded,         \* history: every sample ever recorded, per server
  calls,            \* history: the credentials the orchestrator was called with
  passes            \* the passes and creation requests suspended at an await

vars ==
  <<serversData, serverStatsData, currentId, powerReq, res, recorded, calls, passes>>

(* ------------------------------ MemStorage ----------------------------- *)
\* the store the storage methods read and write
Store ==
  [serversData |-> serversData, serverStatsData |-> serverStatsData,
   currentId |-> currentId]

\* Map.has(id), Map.get(id)
MapHas(data, id) == \E k \in 1..Len(data) : data[k].id = id
MapGet(data, id) == data[CHOOSE k \in 1..Len(data) : data[k].id = id]

\* Map.set(id, value): replaces in place, or appends a new key
MapSet(data, id, value) ==
  IF MapHas(data, id)
  THEN [k \in 1..Len(data) |-> IF data[k].id = id THEN value ELSE data[k]]
  ELSE Append(data, value)

\* getNextId: post-increment of the counter
getNextId_NoIncrement(cur, entityName) ==
  [id |-> cur[entityName], cur |-> cur]

getNextId(cur, entityName) ==
  [id |-> cur[entityName], cur |-> [cur EXCEPT ![entityName] = @ + 1]]

\* getServers without the filter on the owner
getServers_AnyUser(S, userId) == S.serversData

\* getServers(userId): the user's records, in Map order
getServers(S, userId) ==
  SelectSeq(S.serversData, LAMBDA server : server.userId = userId)

\* getServerById(id)
getServerById(S, id) ==
  IF MapHas(S.serversData, id) THEN MapGet(S.serversData, id) ELSE None

\* getServerByPterodactylId: Array.find, the first match in Map order
getServerByPterodactylId(S, pterodactylId) ==
  LET hits == {k \in 1..Len(S.serversData) :
                 S.serversData[k].pterodactylId = pterodactylId}
  IN IF hits = {} THEN None
     ELSE S.serversData[CHOOSE k \in hits : \A j \in hits : k <= j]

\* createServer(server)
createServer(S, server) ==
  LET next == getNextId(S.currentId, "servers")
      newServer ==
        [id |-> next.id,
         userId |-> server.userId,
         pterodactylId |-> server.pterodactylId,
         name |-> server.name,
         status |-> OrElse(server.status, "installing"),
         description |-> OrElse(server.description, Null)]
  IN [S |-> [serversData |-> MapSet(S.serversData, next.id, newServer),
             serverStatsData |->
               [k \in DOMAIN S.serverStatsData \cup {next.id} |->
                  IF k = next.id THEN <<>> ELSE S.serverStatsData[k]],
             currentId |-> next.cur],
      server |-> newServer]

\* updateServerStatus storing a fresh record that drops the description
updateServerStatus_DropsDescription(S, id, status) ==
  IF ~MapHas(S.serversData, id)
  THEN [S |-> S, threw |-> TRUE, server |-> None]
  ELSE LET server == [MapGet(S.serversData, id) EXCEPT
                        !.status = status, !.description = Null]
       IN [S |-> [S EXCEPT !.serversData = MapSet(@, id, server)],
           threw |-> FALSE, server |-> server]

\* updateServerStatus(id, status): throws when the id has no record
updateServerStatus(S, id, status) ==
  IF ~MapHas(S.serversData, id)
  THEN [S |-> S, threw |-> TRUE, server |-> None]
  ELSE LET server == [MapGet(S.serversData, id) EXCEPT !.status = status]
       IN [S |-> [S EXCEPT !.serversData = MapSet(@, id, server)],
           threw |-> FALSE, server |-> server]

\* existingServersByPterodactylId: forEach(set), the last record of an
\* external id in Map order wins
ExistingByPterodactylId(existingServers) ==
  [p \in {existingServers[k].pterodactylId : k \in 1..Len(existingServers)} |->
     LET hits == {k \in 1..Len(existingServers) :
                    existingServers[k].pterodactylId = p}
     IN existingServers[CHOOSE k \in hits : \A j \in hits : j <= k]]

\* the loop body with the update branch storing the merged record as a fresh
\* record: it takes a new internal id
SyncEntry_Recreates(S, byPterodactylId, userId, ptero) ==
  IF ptero.status = NoStatus
  THEN [S |-> S, threw |-> TRUE, server |-> None]
  ELSE IF ptero.identifier \in DOMAIN byPterodactylId
  THEN LET existingServer == byPterodactylId[ptero.identifier]
           next == getNextId(S.currentId, "servers")
           updatedServer ==
             [existingServer EXCEPT
                !.id = next.id,
                !.name = ptero.name,
                !.description = OrElse(ptero.description, existingServer.description),
                !.status = toLowerCase(ptero.status)]
       IN [S |-> [S EXCEPT
                    !.serversData =
                      [k \in 1..Len(@) |->
                         IF @[k].id = existingServer.id THEN updatedServer ELSE @[k]],
                    !.currentId = next.cur],
           threw |-> FALSE, server |-> updatedServer]
  ELSE LET created ==
             createServer(S,
               [userId |-> userId,
                pterodactylId |-> ptero.identifier,
                name |-> ptero.name,
                description |-> OrElse(ptero.description, ""),
                status |-> toLowerCase(ptero.status)])
       IN [S |-> created.S, threw |-> FALSE, server |-> created.server]

\* the loop body with the update branch writing the fields of the stored
\* record one by one and leaving it after the name and the status
SyncEntry_PartialUpdate(S, byPterodactylId, userId, ptero) ==
  IF ptero.status = NoStatus
  THEN [S |-> S, threw |-> TRUE, server |-> None]
  ELSE IF ptero.identifier \in DOMAIN byPterodactylId
  THEN LET existingServer == byPterodactylId[ptero.identifier]
           updatedServer ==
             [existingServer EXCEPT
                !.name = ptero.name,
                !.status = toLowerCase(ptero.status)]
       IN [S |-> [S EXCEPT
                    !.serversData = MapSet(@, existingServer.id, updatedServer)],
           threw |-> FALSE, server |-> updatedServer]
  ELSE LET created ==
             createServer(S,
               [userId |-> userId,
                pterodactylId |-> ptero.identifier,
                name |-> ptero.name,
                description |-> OrElse(ptero.description, ""),
                status |-> toLowerCase(ptero.status)])
       IN [S |-> created.S, threw |-> FALSE, server |-> created.server]

\* the body of "for (const ptero of pterodactylServers)" for one entry
SyncEntry(S, byPterodactylId, userId, ptero) ==
  IF ptero.status = NoStatus
  THEN \* ptero.attributes.status.toLowerCase() raises a TypeError
       [S |-> S, threw |-> TRUE, server |-> None]
  ELSE IF ptero.identifier \in DOMAIN byPterodactylId
  THEN LET existingServer == byPterodactylId[ptero.identifier]
           updatedServer ==
             [existingServer EXCEPT
                !.name = ptero.name,
                !.description = OrElse(ptero.description, existingServer.description),
                !.status = toLowerCase(ptero.status)]
       IN [S |-> [S EXCEPT !.serversData = MapSet(@, existingServer.id, updatedServer)],
           threw |-> FALSE, server |-> updatedServer]
  ELSE LET created ==
             createServer(S,
               [userId |-> userId,
                pterodactylId |-> ptero.identifier,
                name |-> ptero.name,
                description |-> OrElse(ptero.description, ""),
                status |-> toLowerCase(ptero.status)])
       IN [S |-> created.S, threw |-> FALSE, server |-> created.server]

\* the loop over the reported batch, from entry i on
RECURSIVE SyncEntries(_, _, _, _, _, _)
SyncEntries(S, byPterodactylId, userId, batch, i, syncedServers) ==
  IF i > Len(batch)
  THEN [S |-> S, threw |-> FALSE, syncedServers |-> syncedServers]
  ELSE LET step == SyncEntry(S, byPterodactylId, userId, batch[i])
       IN IF step.threw
          THEN [S |-> step.S, threw |-> TRUE, syncedServers |-> syncedServers]
          ELSE SyncEntries(step.S, byPterodactylId, userId, batch, i + 1,
                           Append(syncedServers, step.server))

\* the status every missing server is given
MissingStatus == "deleted"

\* the loop over missingServers deleting each missing record and its sample
\* history instead of marking it
RECURSIVE MarkMissing_Deletes(_, _, _, _)
MarkMissing_Deletes(S, missingServers, i, syncedServers) ==
  IF i > Len(missingServers)
  THEN [S |-> S, threw |-> FALSE, syncedServers |-> syncedServers]
  ELSE LET id == missingServers[i].id
           deleted ==
             [S EXCEPT
                !.serversData = SelectSeq(@, LAMBDA server : server.id # id),
                !.serverStatsData = [k \in DOMAIN @ \ {id} |-> @[k]]]
       IN MarkMissing_Deletes(deleted, missingServers, i + 1,
                              Append(syncedServers, missingServers[i]))

\* the loop over missingServers without the push of the updated record to
\* the result
RECURSIVE MarkMissing_NotReported(_, _, _, _)
MarkMissing_NotReported(S, missingServers, i, syncedServers) ==
  IF i > Len(missingServers)
  THEN [S |-> S, threw |-> FALSE, syncedServers |-> syncedServers]
  ELSE LET step == updateServerStatus(S, missingServers[i].id, MissingStatus)
       IN IF step.threw
          THEN [S |-> step.S, threw |-> TRUE, syncedServers |-> syncedServers]
          ELSE MarkMissing_NotReported(step.S, missingServers, i + 1, syncedServers)

\* the loop over missingServers, from entry i on
RECURSIVE MarkMissing(_, _, _, _)
MarkMissing(S, missingServers, i, syncedServers) ==
  IF i > Len(missingServers)
  THEN [S |-> S, threw |-> FALSE, syncedServers |-> syncedServers]
  ELSE LET step == updateServerStatus(S, missingServers[i].id, MissingStatus)
       IN IF step.threw
          THEN [S |-> step.S, threw |-> TRUE, syncedServers |-> syncedServers]
          ELSE MarkMissing(step.S, missingServers, i + 1,
                           Append(syncedServers, step.server))

\* syncPterodactylServers(userId, pterodactylServers)
syncPterodactylServers(S, userId, pterodactylServers) ==
  LET existingServers == getServers(S, userId)
      byPterodactylId == ExistingByPterodactylId(existingServers)
      merged == SyncEntries(S, byPterodactylId, userId, pterodactylServers, 1, <<>>)
      pterodactylIds ==
        {pterodactylServers[k].identifier : k \in 1..Len(pterodactylServers)}
      missingServers ==
        SelectSeq(existingServers,
                  LAMBDA server : server.pterodactylId \notin pterodactylIds)
  IN IF merged.threw THEN merged
     ELSE MarkMissing(merged.S, missingServers, 1, merged.syncedServers)

\* createServerStat with the eviction at the wrong end: pop() for shift()
createServerStat_EvictsNewest(S, serverId) ==
  LET next == getNextId(S.currentId, "serverStats")
      stat == [id |-> next.id, serverId |-> serverId]
      currentStats ==
        IF serverId \in DOMAIN S.serverStatsData
        THEN S.serverStatsData[serverId] ELSE <<>>
      pushed == Append(currentStats, stat)
      kept == IF Len(pushed) > StatsCapacity
              THEN SubSeq(pushed, 1, Len(pushed) - 1) ELSE pushed
  IN [S |-> [S EXCEPT
               !.serverStatsData =
                 [k \in DOMAIN S.serverStatsData \cup {serverId} |->
                    IF k = serverId THEN kept ELSE S.serverStatsData[k]],
               !.currentId = next.cur],
      stat |-> stat]

\* createServerStat(serverId, usage)
createServerStat(S, serverId) ==
  LET next == getNextId(S.currentId, "serverStats")
      stat == [id |-> next.id, serverId |-> serverId]
      currentStats ==
        IF serverId \in DOMAIN S.serverStatsData
        THEN S.serverStatsData[serverId] ELSE <<>>
      pushed == Append(currentStats, stat)
      kept == IF Len(pushed) > StatsCapacity THEN Tail(pushed) ELSE pushed
  IN [S |-> [S EXCEPT
               !.serverStatsData =
                 [k \in DOMAIN S.serverStatsData \cup {serverId} |->
                    IF k = serverId THEN kept ELSE S.serverStatsData[k]],
               !.currentId = next.cur],
      stat |-> stat]

\* getServerStats(serverId)
getServerStats(S, serverId) ==
  IF serverId \in DOMAIN S.serverStatsData THEN S.serverStatsData[serverId] ELSE <<>>

(* -------------------------------- routes ------------------------------- *)
Response(route, code) == [route |-> route, code |-> code]

\* the store is written back by a handler
Commit(S) ==
  /\ serversData' = S.serversData
  /\ serverStatsData' = S.serverStatsData
  /\ currentId' = S.currentId

\* the history variable follows the keys of serverStatsData
Track(S) ==
  recorded' = [k \in DOMAIN S.serverStatsData |->
                 IF k \in DOMAIN recorded THEN recorded[k] ELSE <<>>]

Init ==
  /\ serversData = <<>>
  /\ serverStatsData = << >>
  /\ currentId = [servers |-> 1, serverStats |-> 1]
  /\ powerReq = None
  /\ res = None
  /\ recorded = << >>
  /\ calls = {}
  /\ passes = << >>

\* pterodactylClientRequest(endpoint, apiKey, ...): the request goes out
\* with the given credential
Called(apiKey) == calls' = calls \cup {apiKey}

\* GET /api/servers
ListServers(user, reply) ==
  IF pterodactylApiKey[user] = ""
  THEN /\ res' = Response("servers", 400)
       /\ UNCHANGED <<serversData, serverStatsData, currentId, powerReq, recorded,
                      calls, passes>>
  ELSE IF ~reply.ok
  THEN /\ res' = Response("servers", 500)
       /\ Called(pterodactylApiKey[user])
       /\ UNCHANGED <<serversData, serverStatsData, currentId, powerReq, recorded,
                      passes>>
  ELSE LET pass == syncPterodactylServers(Store, user, reply.data)
       IN /\ Len(pass.S.serversData) <= MaxServers
          /\ Commit(pass.S)
          /\ Track(pass.S)
          /\ Called(pterodactylApiKey[user])
          /\ res' = Response("servers", IF pass.threw THEN 500 ELSE 200)
          /\ UNCHANGED <<powerReq, passes>>

\* the switch with kill mapped to the state a completed kill ends in
OptimisticStatus_KillOffline(action, status) ==
  CASE action = "start" -> "starting"
    [] action = "restart" -> "restarting"
    [] action = "stop" -> "stopping"
    [] action = "kill" -> "offline"
    [] OTHER -> status

\* the status the power route stores for an accepted action
OptimisticStatus(action, status) ==
  CASE action = "start" -> "starting"
    [] action = "restart" -> "restarting"
    [] action \in {"stop", "kill"} -> "stopping"
    [] OTHER -> status

\* the power route looking the record up without comparing its owner with
\* the session user
PowerRequest_NoOwnerCheck(user, serverId, action) ==
  /\ powerReq = None
  /\ UNCHANGED <<serversData, serverStatsData, currentId, recorded, passes>>
  /\ LET server == getServerByPterodactylId(Store, serverId)
     IN IF action \notin PowerActions
        THEN res' = Response("power", 400) /\ UNCHANGED <<powerReq, calls>>
        ELSE IF server = None
        THEN res' = Response("power", 404) /\ UNCHANGED <<powerReq, calls>>
        ELSE IF pterodactylApiKey[user] = ""
        THEN res' = Response("power", 400) /\ UNCHANGED <<powerReq, calls>>
        ELSE /\ powerReq' = [user |-> user, serverId |-> serverId,
                             action |-> action, id |-> server.id,
                             reply |-> "pending"]
             /\ Called(pterodactylApiKey[user])
             /\ UNCHANGED res

\* POST /api/servers/:id/power, up to the await of the orchestrator call
PowerRequest(user, serverId, action) ==
  /\ powerReq = None
  /\ UNCHANGED <<serversData, serverStatsData, currentId, recorded, passes>>
  /\ LET server == getServerByPterodactylId(Store, serverId)
     IN IF action \notin PowerActions
        THEN res' = Response("power", 400) /\ UNCHANGED <<powerReq, calls>>
        ELSE IF server = None \/ server.userId # user
        THEN res' = Response("power", 404) /\ UNCHANGED <<powerReq, calls>>
        ELSE IF pterodactylApiKey[user] = ""
        THEN res' = Response("power", 400) /\ UNCHANGED <<powerReq, calls>>
        ELSE /\ powerReq' = [user |-> user, serverId |-> serverId,
                             action |-> action, id |-> server.id,
                             reply |-> "pending"]
             /\ Called(pterodactylApiKey[user])
             /\ UNCHANGED res

\* the orchestrator answers the power call: 2xx, or an error
OrchestratorReply(ok) ==
  /\ powerReq # None
  /\ powerReq.reply = "pending"
  /\ powerReq' = [powerReq EXCEPT !.reply = IF ok THEN "ok" ELSE "error"]
  /\ UNCHANGED <<serversData, serverStatsData, currentId, res, recorded, calls, passes>>

\* the power route with the status update moved out of the try block, so
\* that it also runs when the orchestrator call failed
PowerComplete_UpdatesOnError ==
  /\ powerReq # None
  /\ powerReq.reply # "pending"
  /\ powerReq' = None
  /\ UNCHANGED <<recorded, calls, passes>>
  /\ LET server == getServerById(Store, powerReq.id)
         status == OptimisticStatus(powerReq.action,
                     IF server = None THEN "" ELSE server.status)
         update == updateServerStatus(Store, powerReq.id, status)
     IN /\ Commit(update.S)
        /\ res' = Response("power",
                     IF update.threw \/ powerReq.reply = "error" THEN 500 ELSE 200)

\* POST /api/servers/:id/power, after the await: the catch block on an
\* error, else the switch and updateServerStatus(server.id, status)
PowerComplete ==
  /\ powerReq # None
  /\ powerReq.reply # "pending"
  /\ powerReq' = None
  /\ UNCHANGED <<recorded, calls, passes>>
  /\ IF powerReq.reply = "error"
     THEN /\ res' = Response("power", 500)
          /\ UNCHANGED <<serversData, serverStatsData, currentId>>
     ELSE LET server == getServerById(Store, powerReq.id)
              status == OptimisticStatus(powerReq.action,
                          IF server = None THEN "" ELSE server.status)
              update == updateServerStatus(Store, powerReq.id, status)
          IN /\ Commit(update.S)
             /\ res' = Response("power", IF update.threw THEN 500 ELSE 200)

\* GET /api/servers/:id: the owner check, the key check, the fetch of the one
\* server and its reconciliation as a batch of one
GetServer(user, serverId, reply) ==
  LET server == getServerByPterodactylId(Store, serverId)
  IN IF server = None \/ server.userId # user
     THEN /\ res' = Response("server", 404)
          /\ UNCHANGED <<serversData, serverStatsData, currentId, powerReq, recorded,
                         calls, passes>>
     ELSE IF pterodactylApiKey[user] = ""
     THEN /\ res' = Response("server", 400)
          /\ UNCHANGED <<serversData, serverStatsData, currentId, powerReq, recorded,
                         calls, passes>>
     ELSE IF ~reply.ok
     THEN /\ res' = Response("server", 500)
          /\ Called(pterodactylApiKey[user])
          /\ UNCHANGED <<serversData, serverStatsData, currentId, powerReq, recorded,
                         passes>>
     ELSE LET pass == syncPterodactylServers(Store, user, reply.data)
          IN /\ Len(reply.data) = 1
             /\ reply.data[1].identifier = serverId
             /\ Len(pass.S.serversData) <= MaxServers
             /\ Commit(pass.S)
             /\ Track(pass.S)
             /\ Called(pterodactylApiKey[user])
             /\ res' = Response("server", IF pass.threw THEN 500 ELSE 200)
             /\ UNCHANGED <<powerReq, passes>>

\* the command route without its check of the user's API key
SendCommand_NoKeyCheck(user, serverId, command, ok) ==
  LET server == getServerByPterodactylId(Store, serverId)
  IN /\ UNCHANGED <<serversData, serverStatsData, currentId, powerReq, recorded, passes>>
     /\ IF command = ""
        THEN res' = Response("command", 400) /\ UNCHANGED calls
        ELSE IF server = None \/ server.userId # user
        THEN res' = Response("command", 404) /\ UNCHANGED calls
        ELSE /\ Called(pterodactylApiKey[user])
             /\ res' = Response("command", IF ok THEN 200 ELSE 500)

\* POST /api/servers/:id/command: the command, owner and key checks, then
\* the call, which changes no record
SendCommand(user, serverId, command, ok) ==
  LET server == getServerByPterodactylId(Store, serverId)
  IN /\ UNCHANGED <<serversData, serverStatsData, currentId, powerReq, recorded, passes>>
     /\ IF command = ""
        THEN res' = Response("command", 400) /\ UNCHANGED calls
        ELSE IF server = None \/ server.userId # user
        THEN res' = Response("command", 404) /\ UNCHANGED calls
        ELSE IF pterodactylApiKey[user] = ""
        THEN res' = Response("command", 400) /\ UNCHANGED calls
        ELSE /\ Called(pterodactylApiKey[user])
             /\ res' = Response("command", IF ok THEN 200 ELSE 500)

\* POST /api/pterodactyl/servers with createPterodactylServer: the plan's
\* server limit, then the creation with the admin key of the configuration
\* and the record of the server the orchestrator made, whose identifier is
\* a new one
CreatePterodactylServer(user, identifier, ok) ==
  /\ UNCHANGED <<powerReq, calls, passes>>
  /\ IF Len(getServers(Store, user)) >= PlanServerLimit
     THEN /\ res' = Response("create", 400)
          /\ UNCHANGED <<serversData, serverStatsData, currentId, recorded>>
     ELSE IF ~ok
     THEN /\ res' = Response("create", 500)
          /\ UNCHANGED <<serversData, serverStatsData, currentId, recorded>>
     ELSE LET created ==
                createServer(Store,
                  [userId |-> user,
                   pterodactylId |-> identifier,
                   name |-> "n1",
                   description |-> "",
                   status |-> NoStatus])
          IN /\ getServerByPterodactylId(Store, identifier) = None
             /\ Len(serversData) < MaxServers
             /\ Commit(created.S)
             /\ Track(created.S)
             /\ res' = Response("create", 201)

Next ==
  \/ \E user \in Users, reply \in FetchReplies : ListServers(user, reply)
  \/ \E user \in Users, serverId \in ExtIds, action \in RequestedActions :
       PowerRequest(user, serverId, action)
  \/ \E ok \in BOOLEAN : OrchestratorReply(ok)
  \/ PowerComplete

Spec == Init /\ [][Next]_vars

\* the power routes of one owner, between reconciliation passes for that
\* owner that report running servers and entries without a status
PowerUsers == {7}
PowerReplies ==
  {reply \in FetchReplies :
     \A k \in 1..Len(reply.data) : reply.data[k].status \in {"running", NoStatus}}
NextPower ==
  \/ \E user \in PowerUsers, reply \in PowerReplies : ListServers(user, reply)
  \/ \E user \in PowerUsers, serverId \in ExtIds, action \in RequestedActions :
       PowerRequest(user, serverId, action)
  \/ \E ok \in BOOLEAN : OrchestratorReply(ok)
  \/ PowerComplete

SpecPower == Init /\ [][NextPower]_vars

\* reconciliation passes alone, for two owners
SyncUsers == {7, 8}
NextSync == \E user \in SyncUsers, reply \in FetchReplies : ListServers(user, reply)

SpecSync == Init /\ [][NextSync]_vars

\* reconciliation passes of one owner over batches whose status and
\* description strings may be empty
FieldServer ==
  [identifier : ExtIds, status : {"running", ""}, name : ReportedName,
   description : {"d1", ""}]
FieldReplies ==
  {[ok |-> TRUE, data |-> batch] :
     batch \in UNION {[1..n -> FieldServer] : n \in 0..MaxBatch}}
NextFields == \E reply \in FieldReplies : ListServers(7, reply)

SpecFields == Init /\ [][NextFields]_vars

(* ------------------------------ telemetry ------------------------------ *)
\* the body of a command request: missing, or a console line
Commands == {"", "say hi"}
\* the Registry after the first pass of user 7 reported two running servers
StatsBatch ==
  <<[identifier |-> "a1", status |-> "running", name |-> "n1", description |-> "d1"],
    [identifier |-> "b2", status |-> "running", name |-> "n1", description |-> "d1"]>>
InitStats ==
  LET empty == [serversData |-> <<>>, serverStatsData |-> << >>,
                currentId |-> [servers |-> 1, serverStats |-> 1]]
      pass == syncPterodactylServers(empty, 7, StatsBatch)
  IN /\ serversData = pass.S.serversData
     /\ serverStatsData = pass.S.serverStatsData
     /\ currentId = pass.S.currentId
     /\ powerReq = None
     /\ res = Response("servers", 200)
     /\ recorded = [k \in DOMAIN pass.S.serverStatsData |-> <<>>]
     /\ calls = {pterodactylApiKey[7]}
     /\ passes = << >>

\* one record operation: storage.createServerStat(server.id, usage)
RecordStat(serverId) ==
  /\ currentId.serverStats <= MaxStatId
  /\ serverId # serversData[1].id => Len(recorded[serverId]) < MaxOtherSamples
  /\ LET made == createServerStat(Store, serverId)
     IN /\ Commit(made.S)
        /\ recorded' = [recorded EXCEPT ![serverId] = Append(@, made.stat)]
  /\ UNCHANGED <<powerReq, res, calls, passes>>

NextStats == \E k \in 1..Len(serversData) : RecordStat(serversData[k].id)

SpecStats == InitStats /\ [][NextStats]_vars

\* what the resources fetch for one server gives: a body with usage
\* attributes, a body without them, or a thrown transport error
FetchOutcomes == {"usage", "nodata", "error"}
PollOutcomes == UNION {[1..n -> FetchOutcomes] : n \in 0..MaxServers + 1}

\* the loop with the per-server catch removed to the end of the loop: the
\* first failed fetch ends the fetching
RECURSIVE PollServers_StopsOnError(_, _, _, _)
PollServers_StopsOnError(acc, servers, outcomes, k) ==
  IF k > Len(servers) THEN acc
  ELSE IF outcomes[k] = "error"
  THEN [acc EXCEPT !.errors = @ + 1]
  ELSE IF outcomes[k] = "nodata"
  THEN PollServers_StopsOnError(acc, servers, outcomes, k + 1)
  ELSE LET made == createServerStat(acc.S, servers[k].id)
       IN PollServers_StopsOnError(
            [acc EXCEPT !.S = made.S, !.allStats = Append(@, made.stat)],
            servers, outcomes, k + 1)

\* "for (const server of servers)" of the server-stats route, from the k-th
\* server on: the fetch, the record when usage data came, the catch
RECURSIVE PollServers(_, _, _, _)
PollServers(acc, servers, outcomes, k) ==
  IF k > Len(servers) THEN acc
  ELSE IF outcomes[k] = "error"
  THEN PollServers([acc EXCEPT !.errors = @ + 1], servers, outcomes, k + 1)
  ELSE IF outcomes[k] = "nodata"
  THEN PollServers(acc, servers, outcomes, k + 1)
  ELSE LET made == createServerStat(acc.S, servers[k].id)
       IN PollServers(
            [acc EXCEPT !.S = made.S, !.allStats = Append(@, made.stat)],
            servers, outcomes, k + 1)

\* the answer of the server-stats route: the samples, and the number of
\* per-server errors it logged
StatsResponse(allStats, errors) ==
  [route |-> "server-stats", code |-> 200, body |-> allStats, errors |-> errors]

\* the server-stats route fetching for every record of the registry instead
\* of the records of the session user
ServerStats_AllUsers(user, outcomes) ==
  LET servers == serversData
  IN /\ Len(outcomes) = Len(servers)
     /\ UNCHANGED <<powerReq, passes>>
     /\ IF Len(servers) = 0
        THEN /\ res' = StatsResponse(<<>>, 0)
             /\ UNCHANGED <<serversData, serverStatsData, currentId, recorded, calls>>
        ELSE IF pterodactylApiKey[user] = ""
        THEN /\ res' = Response("server-stats", 400)
             /\ UNCHANGED <<serversData, serverStatsData, currentId, recorded, calls>>
        ELSE LET poll == PollServers([S |-> Store, allStats |-> <<>>, errors |-> 0],
                                    servers, outcomes, 1)
             IN /\ poll.S.currentId.serverStats <= MaxPollSamples + 1
                /\ Commit(poll.S)
                /\ recorded' =
                     [k \in DOMAIN recorded |->
                        recorded[k] \o SelectSeq(poll.allStats,
                                                 LAMBDA stat : stat.serverId = k)]
                /\ Called(pterodactylApiKey[user])
                /\ res' = StatsResponse(poll.allStats, poll.errors)

\* GET /api/server-stats for a user, the k-th fetch getting outcomes[k]
ServerStats(user, outcomes) ==
  LET servers == getServers(Store, user)
  IN /\ Len(outcomes) = Len(servers)
     /\ UNCHANGED <<powerReq, passes>>
     /\ IF Len(servers) = 0
        THEN /\ res' = StatsResponse(<<>>, 0)
             /\ UNCHANGED <<serversData, serverStatsData, currentId, recorded, calls>>
        ELSE IF pterodactylApiKey[user] = ""
        THEN /\ res' = Response("server-stats", 400)
             /\ UNCHANGED <<serversData, serverStatsData, currentId, recorded, calls>>
        ELSE LET poll == PollServers([S |-> Store, allStats |-> <<>>, errors |-> 0],
                                    servers, outcomes, 1)
             IN /\ poll.S.currentId.serverStats <= MaxPollSamples + 1
                /\ Commit(poll.S)
                /\ recorded' =
                     [k \in DOMAIN recorded |->
                        recorded[k] \o SelectSeq(poll.allStats,
                                                 LAMBDA stat : stat.serverId = k)]
                /\ Called(pterodactylApiKey[user])
                /\ res' = StatsResponse(poll.allStats, poll.errors)

\* telemetry fetches of every user over the registry of InitStats
NextPoll == \E user \in Users, outcomes \in PollOutcomes : ServerStats(user, outcomes)

SpecPoll == InitStats /\ [][NextPoll]_vars

\* the registry after passes of two users: user 7 has a1 and b2, user 8 has
\* a1
InitShared ==
  LET empty == [serversData |-> <<>>, serverStatsData |-> << >>,
                currentId |-> [servers |-> 1, serverStats |-> 1]]
      first == syncPterodactylServers(empty, 7, StatsBatch)
      pass == syncPterodactylServers(first.S, 8, SubSeq(StatsBatch, 1, 1))
  IN /\ serversData = pass.S.serversData
     /\ serverStatsData = pass.S.serverStatsData
     /\ currentId = pass.S.currentId
     /\ powerReq = None
     /\ res = Response("servers", 200)
     /\ recorded = [k \in DOMAIN pass.S.serverStatsData |-> <<>>]
     /\ calls = {pterodactylApiKey[7], pterodactylApiKey[8]}
     /\ passes = << >>

\* telemetry fetches of every user over the registry of InitShared
NextShared == \E user \in Users, outcomes \in PollOutcomes : ServerStats(user, outcomes)

SpecShared == InitShared /\ [][NextShared]_vars

\* the core routes for a user with an API key and a user without one, both
\* getting servers made for them with the admin key; the orchestrator
\* reports running servers and its resources endpoint fails
CredentialUsers == {7, 9}
CredentialReplies ==
  {reply \in FetchReplies :
     \A k \in 1..Len(reply.data) : reply.data[k].status = "running"}
CredentialActions == {"start", "reboot"}
CredentialOutcomes ==
  {outcomes \in PollOutcomes : \A k \in 1..Len(outcomes) : outcomes[k] = "error"}
NextCredential ==
  \/ \E user \in CredentialUsers, identifier \in ExtIds, ok \in BOOLEAN :
       CreatePterodactylServer(user, identifier, ok)
  \/ \E user \in CredentialUsers, reply \in CredentialReplies : ListServers(user, reply)
  \/ \E user \in CredentialUsers, serverId \in ExtIds, reply \in CredentialReplies :
       GetServer(user, serverId, reply)
  \/ \E user \in CredentialUsers, outcomes \in CredentialOutcomes :
       ServerStats(user, outcomes)
  \/ \E user \in CredentialUsers, serverId \in ExtIds, action \in CredentialActions :
       PowerRequest(user, serverId, action)
  \/ \E ok \in BOOLEAN : OrchestratorReply(ok)
  \/ PowerComplete
  \/ \E user \in CredentialUsers, serverId \in ExtIds, command \in Commands,
        ok \in BOOLEAN :
       SendCommand(user, serverId, command, ok)

SpecCredential == Init /\ [][NextCredential]_vars

\* reconciliation passes of two owners over batches of running servers
NextOwner == \E user \in SyncUsers, reply \in CredentialReplies : ListServers(user, reply)

SpecOwner == Init /\ [][NextOwner]_vars

(* -------------------------- overlapping passes ------------------------- *)
\* two list requests of one user in flight at once; each reconciliation pass
\* runs from one await to the next in one step
Slots == {1, 2}
OverlapUser == 7
\* the orchestrator reports running servers, each external id once
OverlapReplies ==
  {reply \in CredentialReplies :
     \A j, k \in 1..Len(reply.data) :
       reply.data[j].identifier = reply.data[k].identifier => j = k}

\* syncPterodactylServers from the point where it was suspended up to its
\* next await (after createServer, after updateServerStatus), its return or
\* its throw; the update branch of the loop has no await
RECURSIVE ResumeSync(_, _)
ResumeSync(S, pass) ==
  IF pass.k <= Len(pass.batch)
  THEN LET ptero == pass.batch[pass.k]
           byPterodactylId == ExistingByPterodactylId(pass.existingServers)
           step == SyncEntry(S, byPterodactylId, pass.userId, ptero)
       IN IF step.threw
          THEN [S |-> step.S, pass |-> [pass EXCEPT !.pc = "threw"]]
          ELSE IF ptero.identifier \in DOMAIN byPterodactylId
          THEN ResumeSync(step.S, [pass EXCEPT !.k = @ + 1])
          ELSE [S |-> step.S, pass |-> [pass EXCEPT !.k = @ + 1]]
  ELSE LET pterodactylIds == {pass.batch[k].identifier : k \in 1..Len(pass.batch)}
           missingServers ==
             SelectSeq(pass.existingServers,
                       LAMBDA server : server.pterodactylId \notin pterodactylIds)
       IN IF pass.m > Len(missingServers)
          THEN [S |-> S, pass |-> [pass EXCEPT !.pc = "done"]]
          ELSE LET step == updateServerStatus(S, missingServers[pass.m].id, MissingStatus)
               IN IF step.threw
                  THEN [S |-> step.S, pass |-> [pass EXCEPT !.pc = "threw"]]
                  ELSE [S |-> step.S, pass |-> [pass EXCEPT !.m = @ + 1]]

\* GET /api/servers up to the first await inside syncPterodactylServers: the
\* list is fetched and getServers has read the user's records
SyncBegin(slot, user, reply) ==
  /\ slot \notin DOMAIN passes
  /\ pterodactylApiKey[user] # ""
  /\ reply.ok
  /\ passes' = [n \in DOMAIN passes \cup {slot} |->
                  IF n = slot
                  THEN [userId |-> user, batch |-> reply.data,
                        existingServers |-> getServers(Store, user),
                        k |-> 1, m |-> 1, pc |-> "suspended"]
                  ELSE passes[n]]
  /\ Called(pterodactylApiKey[user])
  /\ UNCHANGED <<serversData, serverStatsData, currentId, powerReq, res, recorded>>

\* a suspended pass runs on to its next await, or to its end and the answer
SyncResume(slot) ==
  /\ slot \in DOMAIN passes
  /\ passes[slot].pc = "suspended"
  /\ LET resumed == ResumeSync(Store, passes[slot])
     IN /\ Len(resumed.S.serversData) <= MaxOverlapServers
        /\ Commit(resumed.S)
        /\ Track(resumed.S)
        /\ passes' = [passes EXCEPT ![slot] = resumed.pass]
        /\ res' = CASE resumed.pass.pc = "done" -> Response("servers", 200)
                    [] resumed.pass.pc = "threw" -> Response("servers", 500)
                    [] OTHER -> res
  /\ UNCHANGED <<powerReq, calls>>

NextOverlap ==
  \/ \E slot \in Slots, reply \in OverlapReplies : SyncBegin(slot, OverlapUser, reply)
  \/ \E slot \in Slots : SyncResume(slot)

SpecOverlap == Init /\ [][NextOverlap]_vars

(* --------------------------- all operations ---------------------------- *)
\* every operation on the registry and the telemetry store, for one user
\* with an API key: creation, passes, single-server fetches, telemetry
\* fetches, power actions and commands; a batch reports each server once
RegistryUser == 7
RegistryOutcomes ==
  {outcomes \in PollOutcomes : \A k \in 1..Len(outcomes) : outcomes[k] # "nodata"}
NextRegistry ==
  \/ \E identifier \in ExtIds, ok \in BOOLEAN :
       CreatePterodactylServer(RegistryUser, identifier, ok)
  \/ \E reply \in OverlapReplies : ListServers(RegistryUser, reply)
  \/ \E serverId \in ExtIds, reply \in OverlapReplies :
       GetServer(RegistryUser, serverId, reply)
  \/ /\ currentId.serverStats <= MaxRegistrySamples
     /\ \E outcomes \in RegistryOutcomes : ServerStats(RegistryUser, outcomes)
  \/ \E serverId \in ExtIds, action \in CredentialActions :
       PowerRequest(RegistryUser, serverId, action)
  \/ \E ok \in BOOLEAN : OrchestratorReply(ok)
  \/ PowerComplete
  \/ \E serverId \in ExtIds, command \in Commands, ok \in BOOLEAN :
       SendCommand(RegistryUser, serverId, command, ok)

SpecRegistry == Init /\ [][NextRegistry]_vars

(* -------------------------- concurrent creation ------------------------ *)
\* creation requests of one user in flight at once: each is suspended on
\* the orchestrator's creation call after the check of the server limit
CreateSlots == {1, 2, 3}
CreatedIds == {"a1", "b2", "c3"}

\* POST /api/pterodactyl/servers up to the await of the orchestrator call in
\* createPterodactylServer: the check of the plan's server limit
CreateBegin(slot, user) ==
  /\ slot \notin DOMAIN passes
  /\ UNCHANGED <<serversData, serverStatsData, currentId, powerReq, recorded, calls>>
  /\ IF Len(getServers(Store, user)) >= PlanServerLimit
     THEN res' = Response("create", 400) /\ UNCHANGED passes
     ELSE /\ passes' = [n \in DOMAIN passes \cup {slot} |->
                          IF n = slot THEN [userId |-> user, pc |-> "creating"]
                          ELSE passes[n]]
          /\ UNCHANGED res

\* the orchestrator answered the creation call: the record of the new
\* server is stored, or the error is passed on
CreateFinish(slot, identifier, ok) ==
  /\ slot \in DOMAIN passes
  /\ passes[slot].pc = "creating"
  /\ passes' = [n \in DOMAIN passes \ {slot} |-> passes[n]]
  /\ UNCHANGED <<powerReq, calls>>
  /\ IF ~ok
     THEN /\ res' = Response("create", 500)
          /\ UNCHANGED <<serversData, serverStatsData, currentId, recorded>>
     ELSE LET created ==
                createServer(Store,
                  [userId |-> passes[slot].userId,
                   pterodactylId |-> identifier,
                   name |-> "n1",
                   description |-> "",
                   status |-> NoStatus])
          IN /\ getServerByPterodactylId(Store, identifier) = None
             /\ Len(serversData) < MaxOverlapServers
             /\ Commit(created.S)
             /\ Track(created.S)
             /\ res' = Response("create", 201)

NextCreate ==
  \/ \E slot \in CreateSlots : CreateBegin(slot, RegistryUser)
  \/ \E slot \in CreateSlots, identifier \in CreatedIds, ok \in BOOLEAN :
       CreateFinish(slot, identifier, ok)

SpecCreate == Init /\ [][NextCreate]_vars

(* -------------------------------- reads -------------------------------- *)
\* reads of the registry and the telemetry store between the steps of two
\* passes in flight, a power action and telemetry fetches of one user; the
\* orchestrator reports server a1 in one of two versions that differ in
\* every field, or does not report it
Versions ==
  {[identifier |-> "a1", status |-> "running", name |-> "n1", description |-> "d1"],
   [identifier |-> "a1", status |-> "SUSPENDED", name |-> "n2", description |-> "d2"]}
VersionReplies ==
  {[ok |-> TRUE, data |-> <<>>]} \cup {[ok |-> TRUE, data |-> <<ptero>>] : ptero \in Versions}

\* what a read gives back
ReadResponse(kind, key, body) ==
  [route |-> "read", kind |-> kind, key |-> key, body |-> body]

\* getServerById(id), getServerByPterodactylId(id), getServers(userId) and
\* getServerStats(serverId) by a request running between two steps
Read(kind, key) ==
  /\ res' =
       CASE kind = "id" ->
              ReadResponse(kind, key,
                IF getServerById(Store, key) = None THEN <<>>
                ELSE <<getServerById(Store, key)>>)
         [] kind = "pterodactylId" ->
              ReadResponse(kind, key,
                IF getServerByPterodactylId(Store, key) = None THEN <<>>
                ELSE <<getServerByPterodactylId(Store, key)>>)
         [] kind = "userId" -> ReadResponse(kind, key, getServers(Store, key))
         [] kind = "stats" -> ReadResponse(kind, key, getServerStats(Store, key))
  /\ UNCHANGED <<serversData, serverStatsData, currentId, powerReq, recorded,
                 calls, passes>>

ReadKeys ==
  ({"id", "stats"} \X (1..Cardinality(Slots)))
    \cup ({"pterodactylId"} \X {"a1"}) \cup ({"userId"} \X {OverlapUser})

NextReads ==
  \/ \E slot \in Slots, reply \in VersionReplies : SyncBegin(slot, OverlapUser, reply)
  \/ \E slot \in Slots : SyncResume(slot)
  \/ PowerRequest(OverlapUser, "a1", "start")
  \/ OrchestratorReply(TRUE)
  \/ PowerComplete
  \/ /\ currentId.serverStats <= MaxRegistrySamples
     /\ \E outcomes \in RegistryOutcomes : ServerStats(OverlapUser, outcomes)
  \/ \E read \in ReadKeys : Read(read[1], read[2])

SpecReads == Init /\ [][NextReads]_vars

(* ------------------------------- claims -------------------------------- *)
ExternalIdsOf(batch) == {batch[k].identifier : k \in 1..Len(batch)}
Records(data) == {data[k] : k \in 1..Len(data)}
\* the step is a reconciliation pass of GET /api/servers for user and batch
IsPass(user, reply) ==
  /\ pterodactylApiKey[user] # ""
  /\ reply.ok
  /\ ListServers(user, reply)
\* the step sends a power call to the orchestrator
SendsPower == powerReq = None /\ powerReq' # None
\* the step ends a power request whose orchestrator call got the given reply
EndsPower(reply) == powerReq # None /\ powerReq.reply = reply /\ powerReq' = None

\* C1: after a reconciliation pass for user U, every external id of the
\* batch has a ServerRecord owned by U.
C1_BatchIdsHaveRecordOfUser ==
  [][\A user \in Users, reply \in FetchReplies :
       IsPass(user, reply) =>
         \A p \in ExternalIdsOf(reply.data) :
           \E server \in Records(serversData') :
             server.pterodactylId = p /\ server.userId = user]_vars

\* C2: no two ServerRecords have the same external id.
C2_ExternalIdUnique ==
  \A j, k \in 1..Len(serversData) :
    serversData[j].pterodactylId = serversData[k].pterodactylId => j = k

\* C3: a record of owner U whose external id is absent from a batch run for
\* U has power state removed at the end of that pass (so it also stays
\* removed over every further pass for U that does not report it).
C3_AbsentBecomesRemoved ==
  [][\A user \in Users, reply \in FetchReplies :
       IsPass(user, reply) =>
         \A server \in Records(serversData) :
           (server.userId = user /\ server.pterodactylId \notin ExternalIdsOf(reply.data))
             => /\ MapHas(serversData', server.id)
                /\ MapGet(serversData', server.id).status = Removed]_vars

\* the defined power states
PowerStates ==
  {"installing", "offline", "starting", "running", "restarting", "stopping", Removed}

\* C4: the power state of every ServerRecord is one of the defined states.
C4_StatusInEnum ==
  \A server \in Records(serversData) : server.status \in PowerStates

\* C5: no power call is sent to the orchestrator for a start on a server
\* whose local state is running; the request is answered with an error.
C5_StartOnRunningRejected ==
  [][\A user \in Users, serverId \in ExtIds :
       (/\ PowerRequest(user, serverId, "start")
        /\ getServerByPterodactylId(Store, serverId) # None
        /\ getServerByPterodactylId(Store, serverId).userId = user
        /\ getServerByPterodactylId(Store, serverId).status = "running")
       => (~SendsPower /\ res'.code = 400)]_vars

\* C6: no power call is sent to the orchestrator for a stop, restart or kill
\* on a server whose local state is not running; the request is answered
\* with an error.
C6_StopOnNotRunningRejected ==
  [][\A user \in Users, serverId \in ExtIds, action \in {"stop", "restart", "kill"} :
       (/\ PowerRequest(user, serverId, action)
        /\ getServerByPterodactylId(Store, serverId) # None
        /\ getServerByPterodactylId(Store, serverId).userId = user
        /\ getServerByPterodactylId(Store, serverId).status # "running")
       => (~SendsPower /\ res'.code = 400)]_vars

\* C7: removed is terminal for power actions: no power call is sent for a
\* record whose state is removed, and the end of a power request never moves
\* a record away from removed.
C7_RemovedIsTerminal ==
  [][/\ SendsPower => MapGet(serversData, powerReq'.id).status # Removed
     /\ \A server \in Records(serversData) :
          (powerReq # None /\ powerReq' = None /\ server.status = Removed)
            => MapGet(serversData', server.id).status = Removed]_vars

\* C8: a power request whose orchestrator call fails changes no record,
\* neither when it sends the call nor when it handles the failure, and it is
\* answered with an error.
C8_FailureKeepsState ==
  [][/\ SendsPower => serversData' = serversData
     /\ EndsPower("error") => (serversData' = serversData /\ res'.code >= 400)]_vars
\* a power request has failed and was answered with 500
C8_Witness == res = Response("power", 500) /\ powerReq = None /\ serversData # <<>>

\* C9: when the orchestrator accepts a power action, the record is given the
\* optimistic state of the transition table, whatever its state was.
C9_OptimisticState ==
  [][EndsPower("ok") =>
       /\ MapHas(serversData', powerReq.id)
       /\ MapGet(serversData', powerReq.id).status =
            (CASE powerReq.action = "start" -> "starting"
               [] powerReq.action = "restart" -> "restarting"
               [] powerReq.action = "stop" -> "stopping"
               [] powerReq.action = "kill" -> "stopping")
       /\ res' = Response("power", 200)]_vars
\* an accepted power action has stored its optimistic state
C9_Witness ==
  /\ res = Response("power", 200)
  /\ \E server \in Records(serversData) : server.status = "stopping"

\* C10: the stored history of every server holds at most 100 samples, and
\* once more than 100 were recorded it is exactly the 100 most recently
\* recorded ones, in recording order.
C10_HistoryIsLatest100 ==
  \A k \in DOMAIN serverStatsData :
    LET history == getServerStats(Store, k)
        all == recorded[k]
    IN /\ Len(history) <= 100
       /\ history = IF Len(all) > 100 THEN SubSeq(all, Len(all) - 99, Len(all)) ELSE all
\* more than 100 samples were recorded for a server
C10_Witness ==
  \E k \in DOMAIN serverStatsData :
    Len(recorded[k]) > 100 /\ Len(serverStatsData[k]) = 100

\* C11: a list request, with the reconciliation pass it runs, alters neither
\* the internal id nor the owning-user id of a record that existed before it,
\* whatever the batch and the user, also when the pass is aborted.
C11_MergeKeepsIdAndOwner ==
  [][res'.route = "servers" =>
         \A k \in 1..Len(serversData) :
           /\ k <= Len(serversData')
           /\ serversData'[k].id = serversData[k].id
           /\ serversData'[k].userId = serversData[k].userId]_vars
\* a record was merged in place: it is still reported while a record the
\* same owner got later has been marked as missing
C11_Witness ==
  /\ res = Response("servers", 200)
  /\ \E j, k \in 1..Len(serversData) :
       /\ j < k
       /\ serversData[j].userId = serversData[k].userId
       /\ serversData[j].status # Removed
       /\ serversData[k].status = Removed
\* C12: merging is idempotent: after a pass for a user with a batch, running
\* the same pass again would leave every record as it is, also when the
\* first pass created the record and whatever the reported status string.
C12_MergeIdempotent ==
  [][\A reply \in FieldReplies :
       IsPass(7, reply) =>
         syncPterodactylServers(Store', 7, reply.data).S.serversData = serversData']_vars
\* C13: in a telemetry fetch over a user's servers a failed fetch does not
\* stop the loop: the answer is a success whose samples are exactly those of
\* the servers whose fetch gave usage data, in the order of the servers (none
\* when every fetch failed); each of them is the newest sample of its
\* server's history, and no other history changes.
C13_FailureIsolated ==
  [][\A user \in Users, outcomes \in PollOutcomes :
       LET servers == getServers(Store, user)
           succeeded == SelectSeq([k \in 1..Len(servers) |->
                                     [id |-> servers[k].id, outcome |-> outcomes[k]]],
                                  LAMBDA fetch : fetch.outcome = "usage")
       IN (Len(servers) > 0 /\ pterodactylApiKey[user] # "" /\ ServerStats(user, outcomes))
          => /\ res'.code = 200
             /\ Len(res'.body) = Len(succeeded)
             /\ \A k \in 1..Len(succeeded) :
                  /\ res'.body[k].serverId = succeeded[k].id
                  /\ serverStatsData'[succeeded[k].id] =
                       Append(serverStatsData[succeeded[k].id], res'.body[k])
             /\ \A id \in DOMAIN serverStatsData :
                  (\A k \in 1..Len(succeeded) : succeeded[k].id # id)
                    => serverStatsData'[id] = serverStatsData[id]]_vars
\* a fetch failed for the first server of a user and the sample of the
\* second one was recorded and returned
C13_Witness ==
  /\ res.route = "server-stats"
  /\ res.code = 200
  /\ res.errors = 1
  /\ Len(res.body) = 1
  /\ LET servers == getServers(Store, 7)
     IN /\ Len(servers) = 2
        /\ res.body[1].serverId = servers[2].id
        /\ serverStatsData[servers[1].id] = <<>>
        /\ serverStatsData[servers[2].id] = res.body
\* the step is a request of the user on one of the core routes
CoreRequest(user) ==
  \/ \E reply \in CredentialReplies : ListServers(user, reply)
  \/ \E serverId \in ExtIds, reply \in CredentialReplies : GetServer(user, serverId, reply)
  \/ \E outcomes \in PollOutcomes : ServerStats(user, outcomes)
  \/ \E serverId \in ExtIds, action \in RequestedActions :
       PowerRequest(user, serverId, action)
  \/ \E serverId \in ExtIds, command \in Commands, ok \in BOOLEAN :
       SendCommand(user, serverId, command, ok)
\* the step made no call with a user's key and changed no stored state
NoCallNoChange ==
  UNCHANGED <<serversData, serverStatsData, currentId, recorded, calls, powerReq>>

\* C14 as stated: the orchestrator is never called with an empty credential,
\* and a request of a user without a credential on a core route (list
\* servers, single server, server stats, power, command) is answered with an
\* error, without a call and without a change of Registry or Telemetry.
C14_KeylessGetsError ==
  [][/\ "" \notin calls'
     /\ \A user \in Users :
          (pterodactylApiKey[user] = "" /\ CoreRequest(user))
            => NoCallNoChange /\ res'.code >= 400]_vars
\* C14, amended: the orchestrator is never called with an empty credential,
\* and a request of a user without a credential on a core route makes no call
\* and changes no Registry or Telemetry state; it is answered with an error,
\* except on the server-stats route when the user has no record, where the
\* answer is a success with an empty list.
C14_KeylessNeverCalls ==
  [][/\ "" \notin calls'
     /\ \A user \in Users :
          (pterodactylApiKey[user] = "" /\ CoreRequest(user))
            => /\ NoCallNoChange
               /\ \/ res'.code \in {400, 404}
                  \/ /\ getServers(Store, user) = <<>>
                     /\ res' = StatsResponse(<<>>, 0)]_vars
\* a user without a credential owns a record and got the missing-key answer
\* of the single-server route, while another user's calls were made
C14_Witness ==
  /\ res = Response("server", 400)
  /\ \E k \in 1..Len(serversData) : pterodactylApiKey[serversData[k].userId] = ""
  /\ calls # {}
  /\ "" \notin calls
\* C15: the power route answers 400 for an action outside start, stop,
\* restart, kill, and 404 when the external id has no record or the record
\* found for it is another user's; in both cases it makes no orchestrator
\* call and changes no record. A power call is sent only for a valid action
\* on a record of the requesting user.
C15_PowerAccess ==
  [][/\ \A user \in Users, serverId \in ExtIds, action \in RequestedActions :
          PowerRequest(user, serverId, action) =>
            LET server == getServerByPterodactylId(Store, serverId)
            IN /\ action \notin PowerActions
                    => res' = Response("power", 400) /\ NoCallNoChange
               /\ (action \in PowerActions /\ (server = None \/ server.userId # user))
                    => res' = Response("power", 404) /\ NoCallNoChange
     /\ SendsPower =>
          /\ powerReq'.action \in PowerActions
          /\ \E k \in 1..Len(serversData) :
               /\ serversData[k].pterodactylId = powerReq'.serverId
               /\ serversData[k].userId = powerReq'.user
               /\ serversData[k].id = powerReq'.id]_vars
\* the power route answered 404 although every external id has a record:
\* the record asked for was another user's
C15_Witness ==
  /\ res = Response("power", 404)
  /\ powerReq = None
  /\ \A serverId \in ExtIds : getServerByPterodactylId(Store, serverId) # None
\* the registry after the passes of two slots ran one after the other on
\* the empty registry
SerialResult(first, second) ==
  LET empty == [serversData |-> <<>>, serverStatsData |-> << >>,
                currentId |-> [servers |-> 1, serverStats |-> 1]]
      one == syncPterodactylServers(empty, passes[first].userId, passes[first].batch)
      two == syncPterodactylServers(one.S, passes[second].userId, passes[second].batch)
  IN two.S.serversData

\* C16: when two reconciliation passes for the same owner overlap, the
\* registry they leave equals the result of running them one after the other
\* in some order, and an external id new in both batches has exactly one
\* record.
C16_OverlapSerializable ==
  (\A slot \in Slots : slot \in DOMAIN passes /\ passes[slot].pc = "done")
    => /\ serversData \in {SerialResult(1, 2), SerialResult(2, 1)}
       /\ \A serverId \in ExtIds :
            Cardinality({k \in 1..Len(serversData) :
                           serversData[k].pterodactylId = serverId}) <= 1
\* C17: an entry without a status does not abort the pass: the pass
\* succeeds, every entry of the batch that has a status, before and after
\* it, is merged, and the user's records absent from the batch are marked
\* removed.
C17_MalformedEntrySkipped ==
  [][\A user \in Users, reply \in FetchReplies :
       IsPass(user, reply) =>
         /\ res'.code = 200
         /\ \A k \in 1..Len(reply.data) :
              reply.data[k].status # NoStatus =>
                \E server \in Records(serversData') :
                  /\ server.pterodactylId = reply.data[k].identifier
                  /\ server.userId = user
         /\ \A server \in Records(serversData) :
              (server.userId = user /\ server.pterodactylId \notin ExternalIdsOf(reply.data))
                => MapGet(serversData', server.id).status = Removed]_vars

\* the last entry of the batch for an external id
LastEntry(batch, serverId) ==
  batch[CHOOSE k \in 1..Len(batch) :
          /\ batch[k].identifier = serverId
          /\ \A j \in 1..Len(batch) : batch[j].identifier = serverId => j <= k]
\* the external ids that occur more than once in the batch
RepeatedIds(batch) ==
  {batch[j].identifier : j \in {j \in 1..Len(batch) :
     \E k \in 1..Len(batch) : k # j /\ batch[k].identifier = batch[j].identifier}}

\* C18: when an external id occurs twice in the batch of a completed pass,
\* the user has exactly one record with that external id afterwards, and it
\* carries the name and status of the later entry, whether the id was known
\* before or new.
C18_DuplicateLaterWins ==
  [][\A user \in SyncUsers, reply \in FetchReplies :
       (IsPass(user, reply) /\ res'.code = 200) =>
         \A serverId \in RepeatedIds(reply.data) :
           LET hits == {k \in 1..Len(serversData') :
                          /\ serversData'[k].userId = user
                          /\ serversData'[k].pterodactylId = serverId}
               later == LastEntry(reply.data, serverId)
           IN /\ Cardinality(hits) = 1
              /\ \A k \in hits :
                   /\ serversData'[k].name = later.name
                   /\ serversData'[k].status = toLowerCase(later.status)]_vars

\* C19: after a completed pass, for every external id of the batch the user
\* has a record whose name, description and status are the values derived
\* from the reported entry (an empty description gives none, an empty status
\* the default), whatever the record held before.
C19_FieldsOverwritten ==
  [][\A reply \in FieldReplies :
       (IsPass(7, reply) /\ res'.code = 200) =>
         \A serverId \in ExternalIdsOf(reply.data) :
           LET entry == LastEntry(reply.data, serverId)
           IN \E server \in Records(serversData') :
                /\ server.userId = 7
                /\ server.pterodactylId = serverId
                /\ server.name = entry.name
                /\ server.description = OrElse(entry.description, Null)
                /\ server.status \in {toLowerCase(entry.status),
                                      OrElse(toLowerCase(entry.status), "installing")}]_vars

\* C20: a pass for the owner whose batch reports a server that a power action
\* left in an optimistic state (starting, restarting, stopping) sets that
\* record's state to the one derived from the reported status.
C20_PassReplacesOptimistic ==
  [][\A reply \in PowerReplies :
       IsPass(7, reply) =>
         \A server \in Records(serversData) :
           (/\ server.userId = 7
            /\ server.status \in {"starting", "restarting", "stopping"}
            /\ server.pterodactylId \in ExternalIdsOf(reply.data)
            /\ LastEntry(reply.data, server.pterodactylId).status # NoStatus)
             => MapGet(serversData', server.id).status =
                  toLowerCase(LastEntry(reply.data, server.pterodactylId).status)]_vars
\* C21: when a pass for a user reports, with a status, the external id of a
\* record of that user that is marked removed, the pass ends with exactly
\* one record for that external id; it is owned by that user and its status
\* is the one derived from the reported status, not the removed marker.
C21_RemovedReappears ==
  [][\A user \in SyncUsers, reply \in FetchReplies :
       IsPass(user, reply) =>
         \A server \in Records(serversData) :
           (/\ server.userId = user
            /\ server.status = Removed
            /\ server.pterodactylId \in ExternalIdsOf(reply.data)
            /\ LastEntry(reply.data, server.pterodactylId).status # NoStatus)
             => LET hits == {k \in 1..Len(serversData') :
                               serversData'[k].pterodactylId = server.pterodactylId}
                IN /\ Cardinality(hits) = 1
                   /\ \A k \in hits :
                        /\ serversData'[k].userId = user
                        /\ serversData'[k].status # Removed
                        /\ serversData'[k].status =
                             toLowerCase(LastEntry(reply.data, server.pterodactylId).status)]_vars
\* C22: the result of a completed pass for a user has one entry for each
\* entry of the batch, in order, which is a record of the user with that
\* external id and the reported name and status, followed by one entry for
\* each record of the user whose external id the batch lacks, as stored with
\* the removed marker; it has no record of another user.
C22_ResultIsTouched ==
  [][\A user \in SyncUsers, reply \in CredentialReplies :
       (IsPass(user, reply) /\ res'.code = 200) =>
         LET batch == reply.data
             result == syncPterodactylServers(Store, user, batch).syncedServers
             missing == SelectSeq(getServers(Store, user),
                          LAMBDA server : server.pterodactylId \notin ExternalIdsOf(batch))
         IN /\ Len(result) = Len(batch) + Len(missing)
            /\ \A k \in 1..Len(result) :
                 /\ result[k].userId = user
                 /\ MapHas(serversData', result[k].id)
                 /\ MapGet(serversData', result[k].id).userId = user
            /\ \A k \in 1..Len(batch) :
                 /\ result[k].pterodactylId = batch[k].identifier
                 /\ result[k].name = batch[k].name
                 /\ result[k].status = toLowerCase(batch[k].status)
            /\ \A k \in 1..Len(missing) :
                 /\ result[Len(batch) + k].id = missing[k].id
                 /\ result[Len(batch) + k].status = Removed
                 /\ result[Len(batch) + k] = MapGet(serversData', missing[k].id)]_vars
\* a completed pass marked a record of a user as missing and created a
\* record for the server its batch reported
C22_Witness ==
  /\ res = Response("servers", 200)
  /\ \E j, k \in 1..Len(serversData) :
       /\ k < j
       /\ serversData[j].userId = serversData[k].userId
       /\ serversData[j].status = "running"
       /\ serversData[k].status = Removed
\* C23: no operation removes a record or its sample history: over every
\* step each record stays at its place in the Map with its internal id, and
\* each history stays in the telemetry store and does not become empty.
C23_NeverDeleted ==
  [][/\ \A k \in 1..Len(serversData) :
          /\ k <= Len(serversData')
          /\ serversData'[k].id = serversData[k].id
     /\ \A id \in DOMAIN serverStatsData :
          /\ id \in DOMAIN serverStatsData'
          /\ serverStatsData[id] # <<>> => serverStatsData'[id] # <<>>]_vars
\* a record with recorded samples was marked removed and is still there,
\* with its samples
C23_Witness ==
  \E server \in Records(serversData) :
    /\ server.status = Removed
    /\ server.id \in DOMAIN serverStatsData
    /\ serverStatsData[server.id] # <<>>
\* the record has all its reported fields from one version of the server;
\* its status may have been set since by a power action or a pass that
\* missed it
Whole(server) ==
  \E ptero \in Versions :
    /\ server.name = ptero.name
    /\ server.description = ptero.description
    /\ server.status \in {toLowerCase(ptero.status), Removed, "starting"}

\* C24: a read of the registry (by internal id, by external id, by owner)
\* or of a history, made between the steps of passes, a power action and
\* sample recordings, returns only records with all fields of one version
\* of the server, and a history holding only complete samples of the server
\* asked for, within the capacity.
C24_ReadsSeeWholeRecords ==
  (res # None /\ res.route = "read") =>
    IF res.kind = "stats"
    THEN /\ Len(res.body) <= StatsCapacity
         /\ \A k \in 1..Len(res.body) :
              /\ res.body[k].serverId = res.key
              /\ \A j \in 1..Len(res.body) : res.body[j].id = res.body[k].id => j = k
    ELSE \A k \in 1..Len(res.body) : Whole(res.body[k])
\* a read returned a record that a pass updated to the second version while
\* another pass was suspended
C24_Witness ==
  /\ res # None
  /\ res.route = "read"
  /\ res.kind = "userId"
  /\ \E k \in 1..Len(res.body) : res.body[k].name = "n2" /\ res.body[k].id = 1
  /\ \E slot \in DOMAIN passes : passes[slot].pc = "suspended"
  /\ \E slot \in DOMAIN passes : passes[slot].pc = "done"
\* C25: one telemetry fetch for a user appends exactly one sample, a sample
\* of that server, to the history of each server of the user whose fetch
\* gave usage data, and leaves every other history as it was: those of the
\* user's other servers and those of the servers of other users.
C25_OneSamplePerServer ==
  [][\A user \in Users, outcomes \in PollOutcomes :
       ServerStats(user, outcomes) =>
         LET servers == getServers(Store, user)
             sampled == IF pterodactylApiKey[user] = "" THEN {}
                        ELSE {servers[k].id : k \in {k \in 1..Len(servers) :
                                                       outcomes[k] = "usage"}}
         IN \A id \in DOMAIN serverStatsData :
              IF id \in sampled
              THEN /\ Len(serverStatsData'[id]) = Len(serverStatsData[id]) + 1
                   /\ SubSeq(serverStatsData'[id], 1, Len(serverStatsData[id]))
                        = serverStatsData[id]
                   /\ serverStatsData'[id][Len(serverStatsData'[id])].serverId = id
              ELSE serverStatsData'[id] = serverStatsData[id]]_vars
\* a fetch for one user returned samples of both its servers while the
\* history of another user's server holds an earlier sample only
C25_Witness ==
  /\ res.route = "server-stats"
  /\ res.code = 200
  /\ Len(res.body) = 2
  /\ \E server \in Records(serversData) :
       /\ \A k \in 1..Len(res.body) :
            MapGet(serversData, res.body[k].serverId).userId # server.userId
       /\ Len(serverStatsData[server.id]) = 1
       /\ serverStatsData[server.id][1].id < res.body[1].id
\* C26: a single-server request for an external id changes no record other
\* than the one with that external id.
C26_SingleFetchFrame ==
  [][\A serverId \in ExtIds, reply \in OverlapReplies :
       GetServer(RegistryUser, serverId, reply) =>
         \A k \in 1..Len(serversData) :
           serversData[k].pterodactylId # serverId => serversData'[k] = serversData[k]]_vars
\* C27: a list request of a user, with the pass it runs, leaves every record
\* of every other user as it was and creates no record for another user,
\* whatever the batch.
C27_OtherUsersUntouched ==
  [][\A user \in SyncUsers :
       (\E reply \in CredentialReplies : ListServers(user, reply)) =>
         /\ \A k \in 1..Len(serversData) :
              serversData[k].userId # user =>
                k <= Len(serversData') /\ serversData'[k] = serversData[k]
         /\ \A k \in 1..Len(serversData') :
              k > Len(serversData) => serversData'[k].userId = user]_vars
\* two users have a record for the same external id, and a pass marked the
\* one as missing while the other is still running
C27_Witness ==
  /\ res = Response("servers", 200)
  /\ \E j, k \in 1..Len(serversData) :
       /\ serversData[j].userId # serversData[k].userId
       /\ serversData[j].pterodactylId = serversData[k].pterodactylId
       /\ serversData[j].status = Removed
       /\ serversData[k].status = "running"
\* C28: a power action that succeeded changes the status of its record and
\* nothing else: the other fields of the record, every other record, the
\* histories and the id counters stay; a command request changes nothing in
\* the registry and the telemetry store.
C28_PowerAndCommandFrame ==
  [][/\ EndsPower("ok") =>
          /\ Len(serversData') = Len(serversData)
          /\ \A k \in 1..Len(serversData) :
               serversData'[k] =
                 IF serversData[k].id = powerReq.id
                 THEN [serversData[k] EXCEPT !.status = serversData'[k].status]
                 ELSE serversData[k]
          /\ UNCHANGED <<serverStatsData, currentId>>
     /\ \A serverId \in ExtIds, command \in Commands, ok \in BOOLEAN :
          SendCommand(RegistryUser, serverId, command, ok)
            => UNCHANGED <<serversData, serverStatsData, currentId>>]_vars
\* a power action succeeded on a record that has samples, next to another
\* record of the user
C28_Witness ==
  /\ res = Response("power", 200)
  /\ \E j, k \in 1..Len(serversData) :
       /\ j # k
       /\ serversData[j].status = "starting"
       /\ serversData[j].description = "d1"
       /\ serverStatsData[serversData[j].id] # <<>>
\* C29: creation requests never raise a user's number of records above the
\* server limit of the plan, also when several of them are in flight at
\* once.
C29_WithinServerLimit ==
  Len(getServers(Store, RegistryUser)) <= PlanServerLimit

\* C30: the internal ids of the records are pairwise distinct; a record keeps
\* its internal id, its external identifier and its owner through every
\* operation, removal and reappearance included; a new record gets an id that
\* no record ever had (the counter, which only grows and stays above every
\* id), and starts with an empty sample history.
C30_StableDistinctIds ==
  [][/\ \A j, k \in 1..Len(serversData') :
          serversData'[j].id = serversData'[k].id => j = k
     /\ Len(serversData') >= Len(serversData)
     /\ currentId'.servers >= currentId.servers
     /\ \A k \in 1..Len(serversData) :
          /\ serversData'[k].id = serversData[k].id
          /\ serversData'[k].pterodactylId = serversData[k].pterodactylId
          /\ serversData'[k].userId = serversData[k].userId
     /\ \A k \in (Len(serversData) + 1)..Len(serversData') :
          /\ serversData'[k].id >= currentId.servers
          /\ serversData'[k].id < currentId'.servers
          /\ serversData'[k].id \notin DOMAIN serverStatsData
          /\ serverStatsData'[serversData'[k].id] = <<>>]_vars

\* An older record that has samples and is marked removed stands beside a
\* younger record with another id and an empty history.
C30_Witness ==
  \E j, k \in 1..Len(serversData) :
    /\ j < k
    /\ serversData[j].id < serversData[k].id
    /\ serversData[k].id < currentId.servers
    /\ serversData[j].status = Removed
    /\ serversData[j].id \in DOMAIN serverStatsData
    /\ serverStatsData[serversData[j].id] # <<>>
    /\ serverStatsData[serversData[k].id] = <<>>

====
